---- MODULE Spec2Model ----
(***************************************************************************)
(* Model of the swim-score API route of weather-vision                     *)
(* (src/pages/api/swimscore.ts): the request handler, the input validator, *)
(* the three scorers, the aggregator and the text advisors.                *)
(*                                                                         *)
(* Numbers.  The twelve inputs are JavaScript numbers (IEEE-754 doubles).  *)
(* Every comparison the source makes on an input is against an integer     *)
(* literal, so an input is represented by twice its value: 2*k stands for  *)
(* the integer k and 2*k+1 for any double strictly between k and k+1.      *)
(* NaN is a separate value on which every comparison is false.  Scores are *)
(* plain integers.  The weighted sum of the aggregator is computed in      *)
(* IEEE-754 double arithmetic (see the section "IEEE-754").                *)
(***************************************************************************)
EXTENDS Integers, Sequences, FiniteSets, TLC

(***************************************************************************)
(* JavaScript numbers of the inputs                                        *)
(***************************************************************************)
NaN == 1000001

N(k) == 2 * k

ge(x, k) == x # NaN /\ x >= 2 * k
gt(x, k) == x # NaN /\ x > 2 * k
le(x, k) == x # NaN /\ x <= 2 * k
lt(x, k) == x # NaN /\ x < 2 * k

MathMax(a, b) == IF a >= b THEN a ELSE b

(***************************************************************************)
(* String.prototype.includes                                               *)
(***************************************************************************)
includes(s, sub) ==
    \E i \in 1..(Len(s) - Len(sub) + 1) : SubSeq(s, i, i + Len(sub) - 1) = sub

\* The code compared with === instead of searched with includes.
isStormEquals(weatherCode) ==
    weatherCode = "thunderstorm" \/ weatherCode = "95"

isStorm(weatherCode) ==
    includes(weatherCode, "thunderstorm") \/ weatherCode = "95"

(***************************************************************************)
(* The scorers                                                             *)
(***************************************************************************)
\* The wind bands written as independent if statements, so that the
\* deductions of all matching bands add up.
safetyDeductionsSummed(inputs) ==
    LET windSpeed == inputs.windSpeed
        precipAmount == inputs.precipAmount
        precipLast24h == inputs.precipLast24h
        visibility == inputs.visibility
        sst == inputs.sst
        airQualityIndex == inputs.airQualityIndex
        wind == (IF ge(windSpeed, 30) THEN 20 ELSE 0)
                + (IF ge(windSpeed, 25) THEN 15 ELSE 0)
                + (IF ge(windSpeed, 20) THEN 10 ELSE 0)
                + (IF ge(windSpeed, 15) THEN 5 ELSE 0)
        precip == IF ge(precipAmount, 15) \/ ge(precipLast24h, 50) THEN 15
                  ELSE IF ge(precipAmount, 10) \/ ge(precipLast24h, 30) THEN 10
                  ELSE IF ge(precipAmount, 5) \/ ge(precipLast24h, 15) THEN 5 ELSE 0
        vis == IF lt(visibility, 500) THEN 15
               ELSE IF lt(visibility, 1000) THEN 10
               ELSE IF lt(visibility, 3000) THEN 5 ELSE 0
        water == IF lt(sst, 15) THEN 20
                 ELSE IF lt(sst, 18) THEN 15
                 ELSE IF gt(sst, 32) THEN 10
                 ELSE IF gt(sst, 30) THEN 5 ELSE 0
        air == IF ge(airQualityIndex, 150) THEN 10
               ELSE IF ge(airQualityIndex, 100) THEN 5 ELSE 0
    IN  wind + precip + vis + water + air

safetyDeductions(inputs) ==
    LET windSpeed == inputs.windSpeed
        precipAmount == inputs.precipAmount
        precipLast24h == inputs.precipLast24h
        visibility == inputs.visibility
        sst == inputs.sst
        airQualityIndex == inputs.airQualityIndex
        wind == IF ge(windSpeed, 30) THEN 20
                ELSE IF ge(windSpeed, 25) THEN 15
                ELSE IF ge(windSpeed, 20) THEN 10
                ELSE IF ge(windSpeed, 15) THEN 5 ELSE 0
        precip == IF ge(precipAmount, 15) \/ ge(precipLast24h, 50) THEN 15
                  ELSE IF ge(precipAmount, 10) \/ ge(precipLast24h, 30) THEN 10
                  ELSE IF ge(precipAmount, 5) \/ ge(precipLast24h, 15) THEN 5 ELSE 0
        vis == IF lt(visibility, 500) THEN 15
               ELSE IF lt(visibility, 1000) THEN 10
               ELSE IF lt(visibility, 3000) THEN 5 ELSE 0
        water == IF lt(sst, 15) THEN 20
                 ELSE IF lt(sst, 18) THEN 15
                 ELSE IF gt(sst, 32) THEN 10
                 ELSE IF gt(sst, 30) THEN 5 ELSE 0
        air == IF ge(airQualityIndex, 150) THEN 10
               ELSE IF ge(airQualityIndex, 100) THEN 5 ELSE 0
    IN  wind + precip + vis + water + air

\* calcSafety without the floor of its last line (return score).
calcSafetyNoFloor(inputs) ==
    IF isStorm(inputs.weatherCode) THEN 5
    ELSE IF ge(inputs.windSpeed, 50) \/ ge(inputs.windGust, 60) THEN 8
    ELSE IF ge(inputs.windSpeed, 40) \/ ge(inputs.windGust, 50) THEN 12
    ELSE 60 - safetyDeductions(inputs)

\* The second wind short-circuit taken from 30 km/h on instead of 40.
calcSafetyGaleAt30(inputs) ==
    IF isStorm(inputs.weatherCode) THEN 5
    ELSE IF ge(inputs.windSpeed, 50) \/ ge(inputs.windGust, 60) THEN 8
    ELSE IF ge(inputs.windSpeed, 30) \/ ge(inputs.windGust, 50) THEN 12
    ELSE MathMax(60 - safetyDeductions(inputs), 0)

\* Cold water made a fourth short-circuit.
calcSafetyColdShortCircuit(inputs) ==
    IF isStorm(inputs.weatherCode) THEN 5
    ELSE IF ge(inputs.windSpeed, 50) \/ ge(inputs.windGust, 60) THEN 8
    ELSE IF ge(inputs.windSpeed, 40) \/ ge(inputs.windGust, 50) THEN 12
    ELSE IF lt(inputs.sst, 15) THEN 12
    ELSE MathMax(60 - safetyDeductions(inputs), 0)

\* The wind short-circuits tested before the storm.
calcSafetyWindFirst(inputs) ==
    IF ge(inputs.windSpeed, 50) \/ ge(inputs.windGust, 60) THEN 8
    ELSE IF ge(inputs.windSpeed, 40) \/ ge(inputs.windGust, 50) THEN 12
    ELSE IF isStorm(inputs.weatherCode) THEN 5
    ELSE MathMax(60 - safetyDeductions(inputs), 0)

\* A wind from the south or west taken as onshore and charged 5 points.
calcSafetyOnshore(inputs) ==
    IF isStorm(inputs.weatherCode) THEN 5
    ELSE IF ge(inputs.windSpeed, 50) \/ ge(inputs.windGust, 60) THEN 8
    ELSE IF ge(inputs.windSpeed, 40) \/ ge(inputs.windGust, 50) THEN 12
    ELSE MathMax(60 - safetyDeductions(inputs)
                    - (IF ge(inputs.windDirection, 180) THEN 5 ELSE 0), 0)

\* The additive model started from 100 instead of 60.
calcSafetyBase100(inputs) ==
    IF isStorm(inputs.weatherCode) THEN 5
    ELSE IF ge(inputs.windSpeed, 50) \/ ge(inputs.windGust, 60) THEN 8
    ELSE IF ge(inputs.windSpeed, 40) \/ ge(inputs.windGust, 50) THEN 12
    ELSE MathMax(100 - safetyDeductions(inputs), 0)

calcSafety(inputs) ==
    IF isStorm(inputs.weatherCode) THEN 5
    ELSE IF ge(inputs.windSpeed, 50) \/ ge(inputs.windGust, 60) THEN 8
    ELSE IF ge(inputs.windSpeed, 40) \/ ge(inputs.windGust, 50) THEN 12
    ELSE MathMax(60 - safetyDeductions(inputs), 0)

\* The sea-temperature band 22-30 tested before the band 24-28.
calcComfortWideSeaBandFirst(inputs) ==
    LET apparentTemp == inputs.apparentTemp
        uvIndex == inputs.uvIndex
        cloudCover == inputs.cloudCover
        sst == inputs.sst
        windSpeed == inputs.windSpeed
        precipAmount == inputs.precipAmount
        temp == IF gt(apparentTemp, 42) THEN -15
                ELSE IF gt(apparentTemp, 38) THEN -10
                ELSE IF gt(apparentTemp, 35) THEN -5
                ELSE IF ge(apparentTemp, 24) /\ le(apparentTemp, 32) THEN 5
                ELSE IF lt(apparentTemp, 18) THEN -15
                ELSE IF lt(apparentTemp, 22) THEN -8 ELSE 0
        uv == IF ge(uvIndex, 11) THEN -12
              ELSE IF ge(uvIndex, 9) THEN -8
              ELSE IF ge(uvIndex, 7) THEN -5
              ELSE IF ge(uvIndex, 3) /\ le(uvIndex, 6) THEN 2 ELSE 0
        cloud == IF ge(cloudCover, 20) /\ le(cloudCover, 70) THEN 3
                 ELSE IF gt(cloudCover, 95) THEN -5
                 ELSE IF lt(cloudCover, 10) THEN -2 ELSE 0
        water == IF ge(sst, 22) /\ le(sst, 30) THEN 3
                 ELSE IF ge(sst, 24) /\ le(sst, 28) THEN 8
                 ELSE IF lt(sst, 20) \/ gt(sst, 31) THEN -8 ELSE 0
        rain == IF gt(precipAmount, 5) THEN -5 ELSE 0
        wind == IF gt(windSpeed, 25) THEN -5
                ELSE IF gt(windSpeed, 20) THEN -3 ELSE 0
    IN  MathMax(35 + temp + uv + cloud + water + rain + wind, 0)

calcComfort(inputs) ==
    LET apparentTemp == inputs.apparentTemp
        uvIndex == inputs.uvIndex
        cloudCover == inputs.cloudCover
        sst == inputs.sst
        windSpeed == inputs.windSpeed
        precipAmount == inputs.precipAmount
        temp == IF gt(apparentTemp, 42) THEN -15
                ELSE IF gt(apparentTemp, 38) THEN -10
                ELSE IF gt(apparentTemp, 35) THEN -5
                ELSE IF ge(apparentTemp, 24) /\ le(apparentTemp, 32) THEN 5
                ELSE IF lt(apparentTemp, 18) THEN -15
                ELSE IF lt(apparentTemp, 22) THEN -8 ELSE 0
        uv == IF ge(uvIndex, 11) THEN -12
              ELSE IF ge(uvIndex, 9) THEN -8
              ELSE IF ge(uvIndex, 7) THEN -5
              ELSE IF ge(uvIndex, 3) /\ le(uvIndex, 6) THEN 2 ELSE 0
        cloud == IF ge(cloudCover, 20) /\ le(cloudCover, 70) THEN 3
                 ELSE IF gt(cloudCover, 95) THEN -5
                 ELSE IF lt(cloudCover, 10) THEN -2 ELSE 0
        water == IF ge(sst, 24) /\ le(sst, 28) THEN 8
                 ELSE IF ge(sst, 22) /\ le(sst, 30) THEN 3
                 ELSE IF lt(sst, 20) \/ gt(sst, 31) THEN -8 ELSE 0
        rain == IF gt(precipAmount, 5) THEN -5 ELSE 0
        wind == IF gt(windSpeed, 25) THEN -5
                ELSE IF gt(windSpeed, 20) THEN -3 ELSE 0
    IN  MathMax(35 + temp + uv + cloud + water + rain + wind, 0)

\* The sea-temperature test < 20 || > 28 made before the test < 18 || > 30.
calcPerformanceMildSeaBandFirst(inputs) ==
    LET windSpeed == inputs.windSpeed
        sst == inputs.sst
        airQualityIndex == inputs.airQualityIndex
        apparentTemp == inputs.apparentTemp
        cloudCover == inputs.cloudCover
        visibility == inputs.visibility
        wind == IF lt(windSpeed, 5) THEN 2
                ELSE IF ge(windSpeed, 10) /\ lt(windSpeed, 15) THEN -3
                ELSE IF ge(windSpeed, 15) /\ lt(windSpeed, 20) THEN -5
                ELSE IF ge(windSpeed, 20) /\ lt(windSpeed, 25) THEN -8
                ELSE IF ge(windSpeed, 25) THEN -12 ELSE 0
        water == IF ge(sst, 22) /\ le(sst, 26) THEN 5
                 ELSE IF ge(sst, 20) /\ le(sst, 28) THEN 2
                 ELSE IF lt(sst, 20) \/ gt(sst, 28) THEN -4
                 ELSE IF lt(sst, 18) \/ gt(sst, 30) THEN -8 ELSE 0
        air == IF lt(airQualityIndex, 25) THEN 2
               ELSE IF ge(airQualityIndex, 50) /\ lt(airQualityIndex, 100) THEN -2
               ELSE IF ge(airQualityIndex, 100) /\ lt(airQualityIndex, 150) THEN -6
               ELSE IF ge(airQualityIndex, 150) THEN -10 ELSE 0
        temp == IF ge(apparentTemp, 26) /\ le(apparentTemp, 30) THEN 3
                ELSE IF gt(apparentTemp, 35) THEN -6
                ELSE IF lt(apparentTemp, 20) THEN -4 ELSE 0
        vis == IF lt(visibility, 2000) THEN -10
               ELSE IF lt(visibility, 5000) THEN -5 ELSE 0
        cloud == IF ge(cloudCover, 30) /\ le(cloudCover, 70) THEN 2 ELSE 0
    IN  MathMax(25 + wind + water + air + temp + vis + cloud, 0)

calcPerformance(inputs) ==
    LET windSpeed == inputs.windSpeed
        sst == inputs.sst
        airQualityIndex == inputs.airQualityIndex
        apparentTemp == inputs.apparentTemp
        cloudCover == inputs.cloudCover
        visibility == inputs.visibility
        wind == IF lt(windSpeed, 5) THEN 2
                ELSE IF ge(windSpeed, 10) /\ lt(windSpeed, 15) THEN -3
                ELSE IF ge(windSpeed, 15) /\ lt(windSpeed, 20) THEN -5
                ELSE IF ge(windSpeed, 20) /\ lt(windSpeed, 25) THEN -8
                ELSE IF ge(windSpeed, 25) THEN -12 ELSE 0
        water == IF ge(sst, 22) /\ le(sst, 26) THEN 5
                 ELSE IF ge(sst, 20) /\ le(sst, 28) THEN 2
                 ELSE IF lt(sst, 18) \/ gt(sst, 30) THEN -8
                 ELSE IF lt(sst, 20) \/ gt(sst, 28) THEN -4 ELSE 0
        air == IF lt(airQualityIndex, 25) THEN 2
               ELSE IF ge(airQualityIndex, 50) /\ lt(airQualityIndex, 100) THEN -2
               ELSE IF ge(airQualityIndex, 100) /\ lt(airQualityIndex, 150) THEN -6
               ELSE IF ge(airQualityIndex, 150) THEN -10 ELSE 0
        temp == IF ge(apparentTemp, 26) /\ le(apparentTemp, 30) THEN 3
                ELSE IF gt(apparentTemp, 35) THEN -6
                ELSE IF lt(apparentTemp, 20) THEN -4 ELSE 0
        vis == IF lt(visibility, 2000) THEN -10
               ELSE IF lt(visibility, 5000) THEN -5 ELSE 0
        cloud == IF ge(cloudCover, 30) /\ le(cloudCover, 70) THEN 2 ELSE 0
    IN  MathMax(25 + wind + water + air + temp + vis + cloud, 0)

(***************************************************************************)
(* IEEE-754.  A non-negative double below 128 is a multiple of 2^-55; it   *)
(* is held as <<h, m, l>>, three 21-bit limbs of that multiple             *)
(* (h * 2^42 + m * 2^21 + l).  fl rounds an exact result to the 53-bit     *)
(* significand of a double, ties to even, as every arithmetic operation    *)
(* of the language does.                                                   *)
(***************************************************************************)
Limb == 2097152

dblHalf == <<4096, 0, 0>>
dblThreeTenths == <<2457, 1258291, 419430>>
dblTwoTenths == <<1638, 838860, 1677722>>

carry(t) ==
    LET m1 == t[2] + (t[3] \div Limb)
    IN  <<t[1] + (m1 \div Limb), m1 % Limb, t[3] % Limb>>

bitLength(n) == CHOOSE b \in 0..31 : (b = 0 \/ n >= 2^(b - 1)) /\ n < 2^b

significantBits(t) ==
    IF t[1] > 0 THEN 42 + bitLength(t[1])
    ELSE IF t[2] > 0 THEN 21 + bitLength(t[2])
    ELSE bitLength(t[3])

fl(t) ==
    IF significantBits(t) <= 53 THEN t
    ELSE LET q == 2^(significantBits(t) - 53)
             r == t[3] % q
             kept == t[3] - r
             up == 2 * r > q \/ (2 * r = q /\ (kept \div q) % 2 = 1)
         IN  carry(<<t[1], t[2], kept + (IF up THEN q ELSE 0)>>)

dblTimesInt(d, n) == fl(carry(<<d[1] * n, d[2] * n, d[3] * n>>))

dblPlus(a, b) == fl(carry(<<a[1] + b[1], a[2] + b[2], a[3] + b[3]>>))

\* Math.round: the nearest integer, a tie going up.
MathRound(t) == carry(<<t[1] + 4096, t[2], t[3]>>)[1] \div 8192

\* The weights of safety and comfort exchanged.
weightedTotalSwapped(safety, comfort, performance) ==
    MathRound(dblPlus(dblPlus(dblTimesInt(dblThreeTenths, safety),
                              dblTimesInt(dblHalf, comfort)),
                      dblTimesInt(dblTwoTenths, performance)))

\* The weights of comfort and performance exchanged.
weightedTotalPerformance30(safety, comfort, performance) ==
    MathRound(dblPlus(dblPlus(dblTimesInt(dblHalf, safety),
                              dblTimesInt(dblTwoTenths, comfort)),
                      dblTimesInt(dblThreeTenths, performance)))

weightedTotal(safety, comfort, performance) ==
    MathRound(dblPlus(dblPlus(dblTimesInt(dblHalf, safety),
                              dblTimesInt(dblThreeTenths, comfort)),
                      dblTimesInt(dblTwoTenths, performance)))

(***************************************************************************)
(* The aggregator (handler, lines 201-205)                                 *)
(***************************************************************************)
\* The override guard written safety < 10.
computeTotalStrictOverride(safety, comfort, performance) ==
    IF safety < 10 THEN safety ELSE weightedTotal(safety, comfort, performance)

computeTotal(safety, comfort, performance) ==
    IF safety <= 10 THEN safety ELSE weightedTotal(safety, comfort, performance)

(***************************************************************************)
(* The explanation generator.  A character of the source texts that is    *)
(* not ASCII is written by its code point, as in U+1F3CA.                  *)
(***************************************************************************)
BannerPositive == "U+1F3CA Ideal conditions for a swim!"
BannerCautious == "U+1F914 Moderate conditions; swim with caution."
BannerNegative == "U+1F6AB Conditions not recommended for swimming."

Banners == {BannerPositive, BannerCautious, BannerNegative}

push(cond, msg) == IF cond THEN <<msg>> ELSE <<>>

scoreMessages(safety, comfort, performance) ==
    (IF safety < 20
       THEN <<"U+26A0U+FE0F Safety score is critically low (" \o ToString(safety) \o "/100)">>
     ELSE IF safety < 40
       THEN <<"U+26A0U+FE0F Safety concerns present (score: " \o ToString(safety) \o "/100)">>
     ELSE <<>>)
    \o
    (IF comfort < 20
       THEN <<"U+1F623 Comfort conditions are poor (score: " \o ToString(comfort) \o "/100)">>
     ELSE IF comfort > 80
       THEN <<"U+1F60A Excellent comfort conditions (score: " \o ToString(comfort) \o "/100)">>
     ELSE <<>>)
    \o
    push(performance < 20,
         "U+1F3C3 Performance conditions are challenging (score: "
            \o ToString(performance) \o "/100)")

\* The two UV messages under independent if statements.
inputMessagesUvBoth(inputs) ==
    push(isStorm(inputs.weatherCode),
         "U+26A1 DANGER: Thunderstorm activity detected - do not enter water")
    \o push(ge(inputs.windSpeed, 40), "U+1F32CU+FE0F Strong winds reduce safety for swimmers")
    \o push(lt(inputs.sst, 15), "U+2744U+FE0F Water too cold (<15 U+00B0C) - risk of hypothermia")
    \o push(ge(inputs.precipAmount, 10) \/ ge(inputs.precipLast24h, 30),
            "U+1F327U+FE0F Heavy precipitation may reduce visibility and safety")
    \o push(lt(inputs.visibility, 1000),
            "U+26A0U+FE0F Low visibility (<1 km) is unsafe for water activities")
    \o push(ge(inputs.airQualityIndex, 150),
            "U+1F637 Poor air quality (AQI U+2265 150) - consider wearing a mask")
    \o (IF gt(inputs.apparentTemp, 38)
          THEN <<"U+1F525 Very hot air temperature (> 38 U+00B0C) may be uncomfortable">>
        ELSE IF lt(inputs.apparentTemp, 18)
          THEN <<"U+1F976 Chilly air temperature (< 18 U+00B0C) may be uncomfortable">>
        ELSE <<>>)
    \o push(ge(inputs.uvIndex, 11),
            "U+1F9F4 Extreme UV levels (UV U+2265 11) - apply SPF 30+ sunscreen")
    \o push(ge(inputs.uvIndex, 9),
            "U+2600U+FE0F High UV (UV U+2265 9) - apply sunscreen and limit exposure")
    \o push(gt(inputs.windSpeed, 20) /\ lt(inputs.apparentTemp, 26),
            "U+1F32CU+FE0F Wind chill may make you feel colder when wet")
    \o push(lt(inputs.cloudCover, 20) /\ ge(inputs.uvIndex, 6),
            "U+1F60E Clear skies + UV U+2265 6 - bring shade and protective gear")

inputMessages(inputs) ==
    push(isStorm(inputs.weatherCode),
         "U+26A1 DANGER: Thunderstorm activity detected - do not enter water")
    \o push(ge(inputs.windSpeed, 40), "U+1F32CU+FE0F Strong winds reduce safety for swimmers")
    \o push(lt(inputs.sst, 15), "U+2744U+FE0F Water too cold (<15 U+00B0C) - risk of hypothermia")
    \o push(ge(inputs.precipAmount, 10) \/ ge(inputs.precipLast24h, 30),
            "U+1F327U+FE0F Heavy precipitation may reduce visibility and safety")
    \o push(lt(inputs.visibility, 1000),
            "U+26A0U+FE0F Low visibility (<1 km) is unsafe for water activities")
    \o push(ge(inputs.airQualityIndex, 150),
            "U+1F637 Poor air quality (AQI U+2265 150) - consider wearing a mask")
    \o (IF gt(inputs.apparentTemp, 38)
          THEN <<"U+1F525 Very hot air temperature (> 38 U+00B0C) may be uncomfortable">>
        ELSE IF lt(inputs.apparentTemp, 18)
          THEN <<"U+1F976 Chilly air temperature (< 18 U+00B0C) may be uncomfortable">>
        ELSE <<>>)
    \o (IF ge(inputs.uvIndex, 11)
          THEN <<"U+1F9F4 Extreme UV levels (UV U+2265 11) - apply SPF 30+ sunscreen">>
        ELSE IF ge(inputs.uvIndex, 9)
          THEN <<"U+2600U+FE0F High UV (UV U+2265 9) - apply sunscreen and limit exposure">>
        ELSE <<>>)
    \o push(gt(inputs.windSpeed, 20) /\ lt(inputs.apparentTemp, 26),
            "U+1F32CU+FE0F Wind chill may make you feel colder when wet")
    \o push(lt(inputs.cloudCover, 20) /\ ge(inputs.uvIndex, 6),
            "U+1F60E Clear skies + UV U+2265 6 - bring shade and protective gear")

\* The banner thresholds compared with > instead of >=.
bannerStrict(total) ==
    IF total > 80 THEN BannerPositive
    ELSE IF total > 50 THEN BannerCautious
    ELSE BannerNegative

banner(total) ==
    IF total >= 80 THEN BannerPositive
    ELSE IF total >= 50 THEN BannerCautious
    ELSE BannerNegative

\* The messages of the raw inputs pushed before the commentary of the scores.
buildExplanationInputsFirst(safety, comfort, performance, inputs, total) ==
    <<banner(total)>> \o inputMessages(inputs)
        \o scoreMessages(safety, comfort, performance)

buildExplanation(safety, comfort, performance, inputs, total) ==
    <<banner(total)>> \o scoreMessages(safety, comfort, performance)
        \o inputMessages(inputs)

(***************************************************************************)
(* The recommendation and best-time advisors                               *)
(***************************************************************************)
RecDanger == "DANGER: Do not swim - thunderstorm activity detected!"
RecWind == "Unsafe: Extreme wind conditions - avoid swimming."
RecCold == "Unsafe: Water temperature too cold - risk of hypothermia."
RecGoAhead == "Go ahead! Enjoy your swim."
RecCaution == "Consider caution: check current conditions."
RecNotRecommended == "Not recommended: unsafe to swim."

\* The cold-water guard tested before the wind guard.
getRecommendationColdFirst(total, inputs) ==
    IF isStorm(inputs.weatherCode) THEN RecDanger
    ELSE IF lt(inputs.sst, 15) THEN RecCold
    ELSE IF ge(inputs.windSpeed, 40) THEN RecWind
    ELSE IF total >= 80 THEN RecGoAhead
    ELSE IF total >= 50 THEN RecCaution
    ELSE RecNotRecommended

\* The storm recognised by the code 95 only.
getRecommendationCode95Only(total, inputs) ==
    IF inputs.weatherCode = "95" THEN RecDanger
    ELSE IF ge(inputs.windSpeed, 40) THEN RecWind
    ELSE IF lt(inputs.sst, 15) THEN RecCold
    ELSE IF total >= 80 THEN RecGoAhead
    ELSE IF total >= 50 THEN RecCaution
    ELSE RecNotRecommended

\* The caution string given from a total of 40 on.
getRecommendationCautionAt40(total, inputs) ==
    IF isStorm(inputs.weatherCode) THEN RecDanger
    ELSE IF ge(inputs.windSpeed, 40) THEN RecWind
    ELSE IF lt(inputs.sst, 15) THEN RecCold
    ELSE IF total >= 80 THEN RecGoAhead
    ELSE IF total >= 40 THEN RecCaution
    ELSE RecNotRecommended

getRecommendation(total, inputs) ==
    IF isStorm(inputs.weatherCode) THEN RecDanger
    ELSE IF ge(inputs.windSpeed, 40) THEN RecWind
    ELSE IF lt(inputs.sst, 15) THEN RecCold
    ELSE IF total >= 80 THEN RecGoAhead
    ELSE IF total >= 50 THEN RecCaution
    ELSE RecNotRecommended

\* Rain of the last 24 hours counted as rain, too.
getBestTimeToSwimAnyRain(inputs) ==
    IF gt(inputs.precipAmount, 0) \/ gt(inputs.precipLast24h, 0)
      THEN "Rainy U+2013 No best time."
    ELSE "Afternoon (2 PM U+2013 4 PM)"

getBestTimeToSwim(inputs) ==
    IF gt(inputs.precipAmount, 0) THEN "Rainy U+2013 No best time."
    ELSE "Afternoon (2 PM U+2013 4 PM)"

(***************************************************************************)
(* Request bodies.  A body is [kind, typ, val]: kind is what the parsed    *)
(* body is (a plain object, an array, null, undefined or a primitive),     *)
(* typ[f] is typeof body[f] and val holds the values of the fields.        *)
(***************************************************************************)
NumericFields ==
    {"windSpeed", "windGust", "windDirection", "precipAmount", "precipLast24h",
     "visibility", "airQualityIndex", "uvIndex", "cloudCover", "apparentTemp",
     "sst"}

Fields == NumericFields \cup {"weatherCode"}

typeofData(data) ==
    IF data.kind \in {"object", "array", "null"} THEN "object" ELSE data.kind

\* Reading a property of null or undefined raises a TypeError.
propertyReadThrows(data) == data.kind \in {"null", "undefined"}

\* Every field only has to be present (not undefined).
validateInputsPresenceOnly(data) ==
    IF typeofData(data) # "object" \/ data.kind = "null" THEN "false"
    ELSE IF propertyReadThrows(data) THEN "throw"
    ELSE IF \A f \in Fields : data.typ[f] # "undefined" THEN "true"
    ELSE "false"

\* weatherCode required to be a number.
validateInputsNumericCode(data) ==
    IF typeofData(data) # "object" \/ data.kind = "null" THEN "false"
    ELSE IF propertyReadThrows(data) THEN "throw"
    ELSE IF \A f \in Fields : data.typ[f] = "number" THEN "true"
    ELSE "false"

\* "true" or "false" as returned, "throw" when the evaluation raises.
validateInputs(data) ==
    IF typeofData(data) # "object" \/ data.kind = "null" THEN "false"
    ELSE IF propertyReadThrows(data) THEN "throw"
    ELSE IF /\ data.typ["windSpeed"] = "number"
            /\ data.typ["windGust"] = "number"
            /\ data.typ["windDirection"] = "number"
            /\ data.typ["weatherCode"] = "string"
            /\ data.typ["precipAmount"] = "number"
            /\ data.typ["precipLast24h"] = "number"
            /\ data.typ["visibility"] = "number"
            /\ data.typ["airQualityIndex"] = "number"
            /\ data.typ["uvIndex"] = "number"
            /\ data.typ["cloudCover"] = "number"
            /\ data.typ["apparentTemp"] = "number"
            /\ data.typ["sst"] = "number" THEN "true"
    ELSE "false"

(***************************************************************************)
(* The requests of the model                                               *)
(***************************************************************************)
MaxOverrides == 2
MaxDefects == 2

\* Scenario B of the specification.
Ideal ==
    [windSpeed |-> N(8), windGust |-> N(10), windDirection |-> N(180),
     weatherCode |-> "0", precipAmount |-> N(0), precipLast24h |-> N(0),
     visibility |-> N(10000), airQualityIndex |-> N(20), uvIndex |-> N(5),
     cloudCover |-> N(40), apparentTemp |-> N(27), sst |-> N(26)]

\* A gale on an otherwise fair day.
Gale ==
    [windSpeed |-> N(45), windGust |-> N(50), windDirection |-> N(180),
     weatherCode |-> "3", precipAmount |-> N(0), precipLast24h |-> N(0),
     visibility |-> N(10000), airQualityIndex |-> N(60), uvIndex |-> N(5),
     cloudCover |-> N(40), apparentTemp |-> N(27), sst |-> N(26)]

\* Every reading adverse, short of the short-circuits of the safety scorer.
Harsh ==
    [windSpeed |-> N(35), windGust |-> N(45), windDirection |-> N(0),
     weatherCode |-> "65", precipAmount |-> N(20), precipLast24h |-> N(60),
     visibility |-> N(300), airQualityIndex |-> N(200), uvIndex |-> N(12),
     cloudCover |-> N(100), apparentTemp |-> N(45), sst |-> N(10)]

Scenarios == {Ideal, Gale, Harsh}

FieldOrder ==
    <<"windSpeed", "windGust", "windDirection", "weatherCode", "precipAmount",
      "precipLast24h", "visibility", "airQualityIndex", "uvIndex", "cloudCover",
      "apparentTemp", "sst">>

\* The readings a field of a scenario may be replaced by.
FieldValues(f) ==
    CASE f = "windSpeed" ->
           <<N(3), N(5), N(12), N(17), N(20), N(25), N(25) + 1, N(30), N(40),
             N(50), NaN>>
      [] f = "windGust" -> <<N(10), N(50), N(60)>>
      [] f = "windDirection" -> <<N(0), N(180)>>
      [] f = "weatherCode" ->
           <<"95", "thunderstorm", "slight thunderstorm with hail", "Thunderstorm",
             "950">>
      [] f = "precipAmount" -> <<N(0), N(0) + 1, N(5), N(5) + 1, N(10), N(15)>>
      [] f = "precipLast24h" -> <<N(0), N(15), N(30), N(50)>>
      [] f = "visibility" -> <<N(300), N(800), N(1500), N(2500), N(4000), N(10000)>>
      [] f = "airQualityIndex" -> <<N(20), N(30), N(60), N(100), N(150)>>
      [] f = "uvIndex" -> <<N(1), N(5), N(6), N(7), N(9), N(11)>>
      [] f = "cloudCover" -> <<N(5), N(15), N(25), N(40), N(80), N(96)>>
      [] f = "apparentTemp" ->
           <<N(15), N(18), N(21), N(22), N(24), N(27), N(32), N(33), N(36),
             N(39), N(43)>>
      [] f = "sst" ->
           <<N(12), N(14) + 1, N(15), N(18), N(20), N(22), N(24), N(26), N(28),
             N(30), N(31), N(32), N(33)>>

\* An override <<i, j>> replaces field FieldOrder[i] by its j-th value;
\* <<0, 0>> replaces nothing.
Overrides ==
    {<<0, 0>>} \cup
    UNION { {<<i, j>> : j \in 1..Len(FieldValues(FieldOrder[i]))}
              : i \in 1..Len(FieldOrder) }

RECURSIVE applyOverrides(_, _, _)
applyOverrides(inputs, o, n) ==
    IF n = 0 THEN inputs
    ELSE LET prev == applyOverrides(inputs, o, n - 1)
             f == FieldOrder[o[n][1]]
         IN  IF o[n][1] = 0 THEN prev
             ELSE [prev EXCEPT ![f] = FieldValues(f)[o[n][2]]]

\* Overrides of increasing field index, the empty ones first.
ascending(o) ==
    \A n \in 1..(Len(o) - 1) : o[n][1] < o[n + 1][1] \/ o[n][1] = 0

OverrideLists == {o \in [1..MaxOverrides -> Overrides] : ascending(o)}

Typeofs == <<"number", "string", "undefined", "boolean", "object">>

wellTyped == [f \in Fields |-> IF f = "weatherCode" THEN "string" ELSE "number"]

\* A defect <<i, j>> gives field FieldOrder[i] the kind Typeofs[j].
Defects ==
    {<<0, 0>>} \cup {<<i, j>> : i \in 1..Len(FieldOrder), j \in 1..Len(Typeofs)}

RECURSIVE applyDefects(_, _, _)
applyDefects(typ, d, n) ==
    IF n = 0 THEN typ
    ELSE LET prev == applyDefects(typ, d, n - 1)
         IN  IF d[n][1] = 0 THEN prev
             ELSE [prev EXCEPT ![FieldOrder[d[n][1]]] = Typeofs[d[n][2]]]

DefectLists == {d \in [1..MaxDefects -> Defects] : ascending(d)}

objectBody(typ, val) == [kind |-> "object", typ |-> typ, val |-> val]

nonRecord(kind) ==
    [kind |-> kind, typ |-> [f \in Fields |-> "undefined"], val |-> Ideal]

NonRecordKinds == {"array", "null", "undefined", "string", "number", "boolean"}

Methods == {"POST", "GET"}

(***************************************************************************)
(* The request handler.  pc is the position of the handler in its body;    *)
(* calls lists the functions it has invoked, in order; responses lists     *)
(* what it has sent.  A local that is not assigned yet holds Unset (the    *)
(* empty sequence or string for the texts).                                *)
(***************************************************************************)
VARIABLES pc, req, safety, comfort, performance, total, explanation,
          recommendation, bestTimeToSwim, calls, responses

vars == <<pc, req, safety, comfort, performance, total, explanation,
          recommendation, bestTimeToSwim, calls, responses>>

locals == <<safety, comfort, performance, total, explanation, recommendation,
            bestTimeToSwim>>

Unset == -1

NoRequest == [method |-> "", body |-> nonRecord("undefined")]

Init ==
    /\ pc = "idle"
    /\ req = NoRequest
    /\ safety = Unset
    /\ comfort = Unset
    /\ performance = Unset
    /\ total = Unset
    /\ explanation = <<>>
    /\ recommendation = ""
    /\ bestTimeToSwim = ""
    /\ calls = <<>>
    /\ responses = <<>>

errorResponse(status, message) == [status |-> status, json |-> [error |-> message]]

\* A request arrives and the handler is entered.  Its body is a scenario
\* with at most MaxOverrides readings replaced and at most MaxDefects fields
\* missing or of another kind, or it is no record at all.
Receive ==
    /\ pc = "idle"
    /\ \/ \E m \in Methods, s \in Scenarios, o \in OverrideLists :
             req' = [method |-> m,
                     body |-> objectBody(wellTyped, applyOverrides(s, o, Len(o)))]
       \/ \E m \in Methods, d \in DefectLists :
             req' = [method |-> m,
                     body |-> objectBody(applyDefects(wellTyped, d, Len(d)), Ideal)]
       \/ \E m \in Methods, k \in NonRecordKinds :
             req' = [method |-> m, body |-> nonRecord(k)]
    /\ pc' = "method"
    /\ UNCHANGED <<locals, calls, responses>>

\* The method test left out.
CheckMethodNone ==
    /\ pc = "method"
    /\ pc' = "validate"
    /\ UNCHANGED <<req, locals, calls, responses>>

\* if (req.method !== 'POST') return res.status(405)...
CheckMethod ==
    /\ pc = "method"
    /\ IF req.method # "POST"
         THEN /\ responses' = Append(responses, errorResponse(405, "Method not allowed"))
              /\ pc' = "done"
         ELSE /\ pc' = "validate"
              /\ UNCHANGED responses
    /\ UNCHANGED <<req, locals, calls>>

\* The 400 answer sent without returning: the handler goes on to the scorers.
ValidateNoReturn ==
    /\ pc = "validate"
    /\ calls' = Append(calls, "validateInputs")
    /\ IF validateInputs(req.body) = "true"
         THEN UNCHANGED responses
         ELSE responses' = Append(responses, errorResponse(400, "Invalid input data"))
    /\ pc' = "score"
    /\ UNCHANGED <<req, locals>>

\* const data = req.body; if (!validateInputs(data)) return res.status(400)...
Validate ==
    /\ pc = "validate"
    /\ calls' = Append(calls, "validateInputs")
    /\ LET valid == validateInputs(req.body)
       IN  IF valid = "true"
             THEN /\ pc' = "score"
                  /\ UNCHANGED responses
           ELSE IF valid = "false"
             THEN /\ responses' = Append(responses, errorResponse(400, "Invalid input data"))
                  /\ pc' = "done"
           ELSE /\ responses' = Append(responses, errorResponse(500, "Internal server error"))
                /\ pc' = "done"
    /\ UNCHANGED <<req, locals>>

\* The three scorers; destructuring inputs raises when it is null or undefined.
Score ==
    /\ pc = "score"
    /\ IF propertyReadThrows(req.body)
         THEN /\ calls' = Append(calls, "calcSafety")
              /\ responses' = Append(responses, errorResponse(500, "Internal server error"))
              /\ pc' = "done"
              /\ UNCHANGED <<safety, comfort, performance>>
         ELSE /\ calls' = calls \o <<"calcSafety", "calcComfort", "calcPerformance">>
              /\ safety' = calcSafety(req.body.val)
              /\ comfort' = calcComfort(req.body.val)
              /\ performance' = calcPerformance(req.body.val)
              /\ pc' = "aggregate"
              /\ UNCHANGED responses
    /\ UNCHANGED <<req, total, explanation, recommendation, bestTimeToSwim>>

\* const total = safety <= 10 ? safety : Math.round(...)
Aggregate ==
    /\ pc = "aggregate"
    /\ total' = computeTotal(safety, comfort, performance)
    /\ pc' = "advise"
    /\ UNCHANGED <<req, safety, comfort, performance, explanation, recommendation,
                   bestTimeToSwim, calls, responses>>

\* The explanation, the recommendation and the best time.
Advise ==
    /\ pc = "advise"
    /\ explanation' = buildExplanation(safety, comfort, performance, req.body.val, total)
    /\ recommendation' = getRecommendation(total, req.body.val)
    /\ bestTimeToSwim' = getBestTimeToSwim(req.body.val)
    /\ calls' = calls \o <<"buildExplanation", "getRecommendation", "getBestTimeToSwim">>
    /\ pc' = "respond"
    /\ UNCHANGED <<req, safety, comfort, performance, total, responses>>

\* return res.status(200).json(output)
Respond ==
    /\ pc = "respond"
    /\ responses' = Append(responses,
          [status |-> 200,
           json |-> [totalScore |-> total,
                     breakdown |-> [safety |-> safety, comfort |-> comfort,
                                    performance |-> performance],
                     explanation |-> explanation,
                     recommendation |-> recommendation,
                     bestTimeToSwim |-> bestTimeToSwim]])
    /\ pc' = "done"
    /\ UNCHANGED <<req, locals, calls>>

\* The handler has returned; its locals are gone and the next request may come.
Return ==
    /\ pc = "done"
    /\ pc' = "idle"
    /\ req' = NoRequest
    /\ safety' = Unset
    /\ comfort' = Unset
    /\ performance' = Unset
    /\ total' = Unset
    /\ explanation' = <<>>
    /\ recommendation' = ""
    /\ bestTimeToSwim' = ""
    /\ calls' = <<>>
    /\ responses' = <<>>

Next ==
    \/ Receive
    \/ CheckMethod
    \/ Validate
    \/ Score
    \/ Aggregate
    \/ Advise
    \/ Respond
    \/ Return

Spec == Init /\ [][Next]_vars

(***************************************************************************)
(* Concurrent worker instances.  Each worker runs the handler on its own   *)
(* request; the steps of the workers interleave freely.  Here every        *)
(* variable is a function of the worker: the locals of handler are         *)
(* per-invocation (const declarations in the function body) and the        *)
(* module swimscore.ts declares no variable outside its functions.         *)
(***************************************************************************)
Workers == {1, 2}

\* The bodies the workers are sent: the three scenarios, a body with
\* weatherCode given as a number, and null.
WorkerBodies ==
    {objectBody(wellTyped, s) : s \in Scenarios}
      \cup {objectBody([wellTyped EXCEPT !["weatherCode"] = "number"], Ideal),
            nonRecord("null")}

InitWorkers ==
    /\ pc = [w \in Workers |-> "idle"]
    /\ req = [w \in Workers |-> NoRequest]
    /\ safety = [w \in Workers |-> Unset]
    /\ comfort = [w \in Workers |-> Unset]
    /\ performance = [w \in Workers |-> Unset]
    /\ total = [w \in Workers |-> Unset]
    /\ explanation = [w \in Workers |-> <<>>]
    /\ recommendation = [w \in Workers |-> ""]
    /\ bestTimeToSwim = [w \in Workers |-> ""]
    /\ calls = [w \in Workers |-> <<>>]
    /\ responses = [w \in Workers |-> <<>>]

ReceiveW(w) ==
    /\ pc[w] = "idle"
    /\ \E m \in Methods, b \in WorkerBodies :
          req' = [req EXCEPT ![w] = [method |-> m, body |-> b]]
    /\ pc' = [pc EXCEPT ![w] = "method"]
    /\ UNCHANGED <<locals, calls, responses>>

CheckMethodW(w) ==
    /\ pc[w] = "method"
    /\ IF req[w].method # "POST"
         THEN /\ responses' = [responses EXCEPT
                                 ![w] = Append(@, errorResponse(405, "Method not allowed"))]
              /\ pc' = [pc EXCEPT ![w] = "done"]
         ELSE /\ pc' = [pc EXCEPT ![w] = "validate"]
              /\ UNCHANGED responses
    /\ UNCHANGED <<req, locals, calls>>

ValidateW(w) ==
    /\ pc[w] = "validate"
    /\ calls' = [calls EXCEPT ![w] = Append(@, "validateInputs")]
    /\ LET valid == validateInputs(req[w].body)
       IN  IF valid = "true"
             THEN /\ pc' = [pc EXCEPT ![w] = "score"]
                  /\ UNCHANGED responses
           ELSE IF valid = "false"
             THEN /\ responses' = [responses EXCEPT
                                     ![w] = Append(@, errorResponse(400, "Invalid input data"))]
                  /\ pc' = [pc EXCEPT ![w] = "done"]
           ELSE /\ responses' = [responses EXCEPT
                                   ![w] = Append(@, errorResponse(500, "Internal server error"))]
                /\ pc' = [pc EXCEPT ![w] = "done"]
    /\ UNCHANGED <<req, locals>>

ScoreW(w) ==
    /\ pc[w] = "score"
    /\ IF propertyReadThrows(req[w].body)
         THEN /\ calls' = [calls EXCEPT ![w] = Append(@, "calcSafety")]
              /\ responses' = [responses EXCEPT
                                 ![w] = Append(@, errorResponse(500, "Internal server error"))]
              /\ pc' = [pc EXCEPT ![w] = "done"]
              /\ UNCHANGED <<safety, comfort, performance>>
         ELSE /\ calls' = [calls EXCEPT
                             ![w] = @ \o <<"calcSafety", "calcComfort", "calcPerformance">>]
              /\ safety' = [safety EXCEPT ![w] = calcSafety(req[w].body.val)]
              /\ comfort' = [comfort EXCEPT ![w] = calcComfort(req[w].body.val)]
              /\ performance' = [performance EXCEPT ![w] = calcPerformance(req[w].body.val)]
              /\ pc' = [pc EXCEPT ![w] = "aggregate"]
              /\ UNCHANGED responses
    /\ UNCHANGED <<req, total, explanation, recommendation, bestTimeToSwim>>

\* The sub-scores kept in variables of the module, shared by the workers: the
\* aggregator reads what the worker that scored last has written.
AggregateWShared(w) ==
    /\ pc[w] = "aggregate"
    /\ LET last == IF \E v \in Workers \ {w} : safety[v] # Unset
                     THEN CHOOSE v \in Workers \ {w} : safety[v] # Unset
                     ELSE w
       IN  total' = [total EXCEPT
                       ![w] = computeTotal(safety[last], comfort[last], performance[last])]
    /\ pc' = [pc EXCEPT ![w] = "advise"]
    /\ UNCHANGED <<req, safety, comfort, performance, explanation, recommendation,
                   bestTimeToSwim, calls, responses>>

AggregateW(w) ==
    /\ pc[w] = "aggregate"
    /\ total' = [total EXCEPT ![w] = computeTotal(safety[w], comfort[w], performance[w])]
    /\ pc' = [pc EXCEPT ![w] = "advise"]
    /\ UNCHANGED <<req, safety, comfort, performance, explanation, recommendation,
                   bestTimeToSwim, calls, responses>>

AdviseW(w) ==
    /\ pc[w] = "advise"
    /\ explanation' = [explanation EXCEPT
                         ![w] = buildExplanation(safety[w], comfort[w], performance[w],
                                                 req[w].body.val, total[w])]
    /\ recommendation' = [recommendation EXCEPT
                            ![w] = getRecommendation(total[w], req[w].body.val)]
    /\ bestTimeToSwim' = [bestTimeToSwim EXCEPT ![w] = getBestTimeToSwim(req[w].body.val)]
    /\ calls' = [calls EXCEPT
                   ![w] = @ \o <<"buildExplanation", "getRecommendation", "getBestTimeToSwim">>]
    /\ pc' = [pc EXCEPT ![w] = "respond"]
    /\ UNCHANGED <<req, safety, comfort, performance, total, responses>>

RespondW(w) ==
    /\ pc[w] = "respond"
    /\ responses' = [responses EXCEPT ![w] = Append(@,
          [status |-> 200,
           json |-> [totalScore |-> total[w],
                     breakdown |-> [safety |-> safety[w], comfort |-> comfort[w],
                                    performance |-> performance[w]],
                     explanation |-> explanation[w],
                     recommendation |-> recommendation[w],
                     bestTimeToSwim |-> bestTimeToSwim[w]]])]
    /\ pc' = [pc EXCEPT ![w] = "done"]
    /\ UNCHANGED <<req, locals, calls>>

ReturnW(w) ==
    /\ pc[w] = "done"
    /\ pc' = [pc EXCEPT ![w] = "idle"]
    /\ req' = [req EXCEPT ![w] = NoRequest]
    /\ safety' = [safety EXCEPT ![w] = Unset]
    /\ comfort' = [comfort EXCEPT ![w] = Unset]
    /\ performance' = [performance EXCEPT ![w] = Unset]
    /\ total' = [total EXCEPT ![w] = Unset]
    /\ explanation' = [explanation EXCEPT ![w] = <<>>]
    /\ recommendation' = [recommendation EXCEPT ![w] = ""]
    /\ bestTimeToSwim' = [bestTimeToSwim EXCEPT ![w] = ""]
    /\ calls' = [calls EXCEPT ![w] = <<>>]
    /\ responses' = [responses EXCEPT ![w] = <<>>]

NextWorkers ==
    \E w \in Workers :
        \/ ReceiveW(w)
        \/ CheckMethodW(w)
        \/ ValidateW(w)
        \/ ScoreW(w)
        \/ AggregateW(w)
        \/ AdviseW(w)
        \/ RespondW(w)
        \/ ReturnW(w)

SpecWorkers == InitWorkers /\ [][NextWorkers]_vars

(***************************************************************************)
(* What the claims speak of                                                *)
(***************************************************************************)
\* The handler has answered 200: the record it sent.
Answered == pc = "done" /\ Len(responses) = 1 /\ responses[1].status = 200

Output == responses[1].json

Inputs == req.body.val

\* The body is a non-null object whose twelve fields have the right kind.
WellFormed(body) ==
    /\ body.kind \in {"object", "array"}
    /\ \A f \in NumericFields : body.typ[f] = "number"
    /\ body.typ["weatherCode"] = "string"

StormCodes == {"95", "thunderstorm", "slight thunderstorm with hail"}

Scorers == {"calcSafety", "calcComfort", "calcPerformance"}

scorerCalled == \E n \in 1..Len(calls) : calls[n] \in Scorers

\* C1: for every accepted input, safety, comfort, performance and totalScore
\* of the answer are integers between 0 and 100.
C1_ScoresInRange ==
    Answered =>
        /\ Output.totalScore \in 0..100
        /\ Output.breakdown.safety \in 0..100
        /\ Output.breakdown.comfort \in 0..100
        /\ Output.breakdown.performance \in 0..100

\* Every deduction of every scorer applies: all three scorers reach their floor.
C1_Witness ==
    /\ Answered
    /\ Output.breakdown.safety = 0
    /\ Output.breakdown.comfort = 0
    /\ Output.breakdown.performance = 0
    /\ safetyDeductions(Inputs) > 60

\* C2: whenever the safety sub-score is at most 10, totalScore equals it,
\* whatever comfort and performance are.
C2_SafetyOverride ==
    Answered /\ Output.breakdown.safety <= 10 =>
        Output.totalScore = Output.breakdown.safety

\* Safety is exactly 10 and the weighted sum would have given another total.
C2_Witness ==
    /\ Answered
    /\ Output.breakdown.safety = 10
    /\ weightedTotal(safety, comfort, performance) # 10

\* C3 as stated: totalScore equals safety only when safety <= 10.
C3_OverrideIsEquivalence ==
    Answered =>
        (Output.totalScore = Output.breakdown.safety <=> Output.breakdown.safety <= 10)

\* C3 amended: totalScore equals safety when safety <= 10; above 10 it equals
\* safety when 3*comfort + 2*performance lies strictly between 5*safety - 5 and
\* 5*safety + 5, and differs from it when that sum lies outside
\* [5*safety - 5, 5*safety + 5].
C3_TotalEqualsSafety ==
    Answered =>
        LET s == Output.breakdown.safety
            rest == 3 * Output.breakdown.comfort + 2 * Output.breakdown.performance
        IN  /\ s <= 10 => Output.totalScore = s
            /\ s > 10 /\ 5 * s - 5 < rest /\ rest < 5 * s + 5 => Output.totalScore = s
            /\ s > 10 /\ (rest < 5 * s - 5 \/ rest > 5 * s + 5) => Output.totalScore # s

\* Safety above 10 and the weighted sum rounds to the safety sub-score.
C3_Witness ==
    /\ Answered
    /\ Output.breakdown.safety > 10
    /\ Output.totalScore = Output.breakdown.safety

\* C4 as stated: above a safety of 10, totalScore is the weighted sum
\* 0.5*safety + 0.3*comfort + 0.2*performance rounded half up, that is
\* floor((5*safety + 3*comfort + 2*performance + 5) / 10), and lies in 0..100.
C4_RoundHalfUp ==
    Answered /\ Output.breakdown.safety > 10 =>
        /\ Output.totalScore =
              (5 * Output.breakdown.safety + 3 * Output.breakdown.comfort
                 + 2 * Output.breakdown.performance + 5) \div 10
        /\ Output.totalScore \in 0..100

\* C5: a weatherCode that contains "thunderstorm" or is "95" gives safety 5,
\* totalScore 5, the danger recommendation and the negative banner first,
\* whatever the other fields are.
C5_Storm ==
    Answered /\ Inputs.weatherCode \in StormCodes =>
        /\ Output.breakdown.safety = 5
        /\ Output.totalScore = 5
        /\ Output.recommendation = RecDanger
        /\ Output.explanation[1] = BannerNegative

\* A storm code inside a longer text, with a wind of 50 km/h or more.
C5_Witness ==
    /\ Answered
    /\ Inputs.weatherCode = "slight thunderstorm with hail"
    /\ Inputs.windSpeed # NaN
    /\ Inputs.windSpeed >= N(50)

\* C6: the explanation is never empty, its first element is the banner the
\* thresholds 80 and 50 of totalScore select, and no banner stands elsewhere.
C6_Banner ==
    Answered =>
        /\ Len(Output.explanation) >= 1
        /\ Output.totalScore >= 80 => Output.explanation[1] = BannerPositive
        /\ Output.totalScore >= 50 /\ Output.totalScore < 80
              => Output.explanation[1] = BannerCautious
        /\ Output.totalScore < 50 => Output.explanation[1] = BannerNegative
        /\ \A n \in 2..Len(Output.explanation) : Output.explanation[n] \notin Banners

\* totalScore is exactly 50 and messages follow the banner.
C6_Witness ==
    /\ Answered
    /\ Output.totalScore = 50
    /\ Len(Output.explanation) >= 2

\* C7: the recommendation is that of the first guard that holds: storm code,
\* windSpeed >= 40, sst < 15, then totalScore >= 80, >= 50, otherwise.
C7_RecommendationOrder ==
    Answered =>
        LET storm == Inputs.weatherCode \in StormCodes
            windy == Inputs.windSpeed # NaN /\ Inputs.windSpeed >= N(40)
            cold == Inputs.sst # NaN /\ Inputs.sst < N(15)
            rec == Output.recommendation
        IN  /\ storm => rec = RecDanger
            /\ ~storm /\ windy => rec = RecWind
            /\ ~storm /\ ~windy /\ cold => rec = RecCold
            /\ ~storm /\ ~windy /\ ~cold /\ Output.totalScore >= 80 => rec = RecGoAhead
            /\ ~storm /\ ~windy /\ ~cold /\ Output.totalScore >= 50
                  /\ Output.totalScore < 80 => rec = RecCaution
            /\ ~storm /\ ~windy /\ ~cold /\ Output.totalScore < 50
                  => rec = RecNotRecommended

\* Two guards hold at once: no storm, a wind of 40 km/h or more and cold water.
C7_Witness ==
    /\ Answered
    /\ Inputs.weatherCode \notin StormCodes
    /\ Inputs.windSpeed # NaN /\ Inputs.windSpeed >= N(40)
    /\ Inputs.sst < N(15)
    /\ Output.recommendation = RecWind

\* C8: validateInputs returns true exactly for a non-null object whose eleven
\* numeric fields are numbers and whose weatherCode is a string, false for
\* everything else, and never raises.
C8_ValidateInputs ==
    pc = "validate" =>
        validateInputs(req.body) = IF WellFormed(req.body) THEN "true" ELSE "false"

\* weatherCode is given as a number, every other field is as it should be.
C8_Witness ==
    /\ pc = "validate"
    /\ req.body.kind = "object"
    /\ req.body.typ["weatherCode"] = "number"
    /\ \A f \in NumericFields : req.body.typ[f] = "number"

\* C9: no scorer is invoked unless the method is POST and validateInputs has
\* accepted the body before; a request of another method is answered 405
\* with the body not examined, a POST with a rejected body is answered 400.
C9_ScorersGuarded ==
    /\ scorerCalled =>
          /\ req.method = "POST"
          /\ calls[1] = "validateInputs"
          /\ WellFormed(req.body)
    /\ pc = "done" /\ req.method # "POST" =>
          /\ calls = <<>>
          /\ responses = <<errorResponse(405, "Method not allowed")>>
    /\ pc = "done" /\ req.method = "POST" /\ ~WellFormed(req.body) =>
          /\ calls = <<"validateInputs">>
          /\ responses = <<errorResponse(400, "Invalid input data")>>

\* A GET request with a body the validator would accept has been answered.
C9_Witness ==
    /\ pc = "done"
    /\ req.method = "GET"
    /\ WellFormed(req.body)

\* C10: a POST whose body passes validateInputs is answered 200 with a
\* SwimScoreOutput, never 500.
C10_ValidIsAnswered200 ==
    /\ req.method = "POST" /\ WellFormed(req.body) =>
          \A n \in 1..Len(responses) : responses[n].status # 500
    /\ pc = "done" /\ req.method = "POST" /\ WellFormed(req.body) =>
          /\ Len(responses) = 1
          /\ responses[1].status = 200
          /\ DOMAIN responses[1].json =
                {"totalScore", "breakdown", "explanation", "recommendation",
                 "bestTimeToSwim"}

\* An accepted body with a NaN reading has been answered.
C10_Witness ==
    /\ pc = "done"
    /\ req.method = "POST"
    /\ WellFormed(req.body)
    /\ Inputs.windSpeed = NaN

\* C11: every request gets exactly one response: a complete output record
\* (totalScore, the three sub-scores, explanation, recommendation and
\* bestTimeToSwim together, status 200) or a record with nothing but an error
\* message (status 405, 400 or 500); nothing is sent before the handler ends.
C11_NoPartialSuccess ==
    /\ pc # "done" => responses = <<>>
    /\ pc = "done" =>
          /\ Len(responses) = 1
          /\ \/ /\ responses[1].status = 200
                /\ DOMAIN responses[1].json =
                      {"totalScore", "breakdown", "explanation", "recommendation",
                       "bestTimeToSwim"}
                /\ DOMAIN responses[1].json.breakdown =
                      {"safety", "comfort", "performance"}
                /\ responses[1].json.totalScore # Unset
                /\ responses[1].json.breakdown.safety # Unset
                /\ responses[1].json.breakdown.comfort # Unset
                /\ responses[1].json.breakdown.performance # Unset
                /\ responses[1].json.explanation # <<>>
                /\ responses[1].json.recommendation # ""
                /\ responses[1].json.bestTimeToSwim # ""
             \/ /\ responses[1].status \in {405, 400, 500}
                /\ DOMAIN responses[1].json = {"error"}

\* A POST whose body is an object with a field of the wrong kind has been
\* answered 400 after validateInputs and nothing else ran.
C11_Witness ==
    /\ pc = "done"
    /\ req.method = "POST"
    /\ req.body.kind = "object"
    /\ calls = <<"validateInputs">>
    /\ responses = <<errorResponse(400, "Invalid input data")>>

\* C12: two requests with identical inputs get identical outputs, whatever
\* the other worker is doing or has served before, and a worker that has
\* returned keeps nothing of the request it served.
C12_Deterministic ==
    /\ \A v, w \in Workers :
          pc[v] = "done" /\ pc[w] = "done" /\ req[v] = req[w]
              => responses[v] = responses[w]
    /\ \A w \in Workers :
          pc[w] = "idle" =>
              /\ safety[w] = Unset /\ comfort[w] = Unset /\ performance[w] = Unset
              /\ total[w] = Unset /\ explanation[w] = <<>>
              /\ recommendation[w] = "" /\ bestTimeToSwim[w] = ""
              /\ calls[w] = <<>> /\ responses[w] = <<>>

\* One worker has answered a scoring request with 200 and the other one,
\* sent a request with other readings, is between its scorers and its
\* aggregator.
C12_Witness ==
    /\ pc[1] = "done"
    /\ responses[1][1].status = 200
    /\ pc[2] = "aggregate"
    /\ req[2].body.val # req[1].body.val

\* C13: with the other eleven inputs fixed, raising windSpeed within
\* [10, 35] km/h never raises the safety sub-score.
C13_WindMonotone ==
    Answered /\ Inputs.windSpeed # NaN
             /\ Inputs.windSpeed >= N(10) /\ Inputs.windSpeed <= N(35) =>
        \A w2 \in Inputs.windSpeed..N(35) :
            calcSafety([Inputs EXCEPT !.windSpeed = w2]) <= Output.breakdown.safety

\* A wind of 12 km/h with a safety of 60 that the same readings at 35 km/h
\* bring down to 40.
C13_Witness ==
    /\ Answered
    /\ Inputs.windSpeed = N(12)
    /\ Output.breakdown.safety = 60
    /\ calcSafety([Inputs EXCEPT !.windSpeed = N(35)]) = 40

\* The eleven readings of the ideal scenario (windDirection is left open).
IdealReadings ==
    /\ Inputs.windSpeed = N(8) /\ Inputs.windGust = N(10)
    /\ Inputs.weatherCode = "0"
    /\ Inputs.precipAmount = N(0) /\ Inputs.precipLast24h = N(0)
    /\ Inputs.visibility = N(10000) /\ Inputs.airQualityIndex = N(20)
    /\ Inputs.uvIndex = N(5) /\ Inputs.cloudCover = N(40)
    /\ Inputs.apparentTemp = N(27) /\ Inputs.sst = N(26)

\* C14: the ideal scenario yields safety 60, comfort 53, performance 37,
\* totalScore 53 and the cautious banner first.
C14_IdealScenario ==
    Answered /\ IdealReadings =>
        /\ Output.breakdown.safety = 60
        /\ Output.breakdown.comfort = 53
        /\ Output.breakdown.performance = 37
        /\ Output.totalScore = 53
        /\ Output.explanation[1] = BannerCautious

\* The ideal scenario has been answered, here with a wind from the north.
C14_Witness ==
    /\ Answered
    /\ IdealReadings
    /\ Inputs.windDirection = N(0)

\* C15: without a storm code and with windSpeed below 40 and windGust below
\* 50, a sea temperature below 15 is no short-circuit: safety is 60 less the
\* other deductions less 20 (floored at 0), 40 for sst 12 and windSpeed 5 in
\* the ideal scenario, and the recommendation is the unsafe-cold string.
C15_ColdWater ==
    Answered /\ Inputs.weatherCode \notin StormCodes
             /\ ~ge(Inputs.windSpeed, 40) /\ ~ge(Inputs.windGust, 50)
             /\ lt(Inputs.sst, 15) =>
        /\ Output.breakdown.safety =
              MathMax(60 - safetyDeductions([Inputs EXCEPT !.sst = N(26)]) - 20, 0)
        /\ Inputs = [Ideal EXCEPT !.sst = N(12), !.windSpeed = N(5)]
              => Output.breakdown.safety = 40
        /\ Output.recommendation = RecCold

\* The ideal scenario with sst 12 and windSpeed 5 has been answered.
C15_Witness ==
    /\ Answered
    /\ Inputs = [Ideal EXCEPT !.sst = N(12), !.windSpeed = N(5)]
    /\ Output.recommendation = RecCold
    /\ Output.totalScore = 36

\* C16 as stated: a UV index of 7 or 8 lowers the comfort sub-score by 4
\* points, compared with the same readings at a UV index that matches no
\* band, as long as the score stays above the floor.
C16_UvSevenMinusFour ==
    Answered /\ ge(Inputs.uvIndex, 7) /\ lt(Inputs.uvIndex, 9)
             /\ Output.breakdown.comfort > 0 =>
        Output.breakdown.comfort = calcComfort([Inputs EXCEPT !.uvIndex = N(1)]) - 4

\* C17: the short-circuits of the safety scorer apply first match first: a
\* storm code gives 5 whatever the wind; otherwise windSpeed >= 50 or
\* windGust >= 60 gives 8; otherwise windSpeed >= 40 or windGust >= 50 gives
\* 12; precipitation, visibility, sst and air quality play no part.
C17_ShortCircuitPriority ==
    Answered =>
        LET storm == Inputs.weatherCode \in StormCodes
            extreme == ge(Inputs.windSpeed, 50) \/ ge(Inputs.windGust, 60)
            strong == ge(Inputs.windSpeed, 40) \/ ge(Inputs.windGust, 50)
        IN  /\ storm => Output.breakdown.safety = 5
            /\ ~storm /\ extreme => Output.breakdown.safety = 8
            /\ ~storm /\ ~extreme /\ strong => Output.breakdown.safety = 12

\* A storm code together with a gust of 60 km/h, on readings whose additive
\* deductions exceed 60.
C17_Witness ==
    /\ Answered
    /\ Inputs.weatherCode \in StormCodes
    /\ ge(Inputs.windGust, 60)
    /\ safetyDeductions(Inputs) > 60
    /\ Output.breakdown.safety = 5

\* The bands of the safety scorer as the specification tabulates them:
\* <<threshold, deduction>>, for precipitation <<amount, last 24 h, deduction>>.
SafetyWindBands == {<<30, 20>>, <<25, 15>>, <<20, 10>>, <<15, 5>>}
SafetyPrecipBands == {<<15, 50, 15>>, <<10, 30, 10>>, <<5, 15, 5>>}
SafetyVisibilityBands == {<<500, 15>>, <<1000, 10>>, <<3000, 5>>}
SafetyColdBands == {<<15, 20>>, <<18, 15>>}
SafetyWarmBands == {<<32, 10>>, <<30, 5>>}
SafetyAirBands == {<<150, 10>>, <<100, 5>>}

\* The deduction of the most severe band among those that match, or 0.
severest(matching) ==
    LET d == {0} \cup {b[Len(b)] : b \in matching}
    IN  CHOOSE x \in d : \A y \in d : y <= x

\* C18: without a short-circuit the safety sub-score is
\* max(0, 60 - wind - precip - visibility - sst - air quality), each category
\* deducting what its single most severe matching band says, or nothing.
C18_SafetyAdditive ==
    Answered /\ Inputs.weatherCode \notin StormCodes
             /\ ~ge(Inputs.windSpeed, 40) /\ ~ge(Inputs.windGust, 50) =>
        LET wind == severest({b \in SafetyWindBands : ge(Inputs.windSpeed, b[1])})
            precip == severest({b \in SafetyPrecipBands :
                          ge(Inputs.precipAmount, b[1]) \/ ge(Inputs.precipLast24h, b[2])})
            vis == severest({b \in SafetyVisibilityBands : lt(Inputs.visibility, b[1])})
            water == severest({b \in SafetyColdBands : lt(Inputs.sst, b[1])}
                        \cup {b \in SafetyWarmBands : gt(Inputs.sst, b[1])})
            air == severest({b \in SafetyAirBands : ge(Inputs.airQualityIndex, b[1])})
        IN  /\ Output.breakdown.safety = MathMax(0, 60 - wind - precip - vis - water - air)
            /\ wind \in {0, 5, 10, 15, 20} /\ precip \in {0, 5, 10, 15}
            /\ vis \in {0, 5, 10, 15} /\ water \in {0, 5, 10, 15, 20}
            /\ air \in {0, 5, 10}

\* A wind of 30 km/h matches all four wind bands and a sea of 12 degrees both
\* cold bands; 20 is deducted for each and safety is 20.
C18_Witness ==
    /\ Answered
    /\ Inputs = [Ideal EXCEPT !.windSpeed = N(30), !.sst = N(12)]
    /\ Output.breakdown.safety = 20

\* The adjustments of the comfort scorer, each band written as the interval
\* it ends up covering.
comfortTemp(x) ==
    IF gt(x, 42) THEN -15
    ELSE IF gt(x, 38) /\ le(x, 42) THEN -10
    ELSE IF gt(x, 35) /\ le(x, 38) THEN -5
    ELSE IF ge(x, 24) /\ le(x, 32) THEN 5
    ELSE IF lt(x, 18) THEN -15
    ELSE IF ge(x, 18) /\ lt(x, 22) THEN -8
    ELSE 0

comfortUv(x) ==
    IF ge(x, 11) THEN -12
    ELSE IF ge(x, 9) /\ lt(x, 11) THEN -8
    ELSE IF ge(x, 7) /\ lt(x, 9) THEN -5
    ELSE IF ge(x, 3) /\ le(x, 6) THEN 2
    ELSE 0

comfortCloud(x) ==
    IF ge(x, 20) /\ le(x, 70) THEN 3
    ELSE IF gt(x, 95) THEN -5
    ELSE IF lt(x, 10) THEN -2
    ELSE 0

comfortSea(x) ==
    IF ge(x, 24) /\ le(x, 28) THEN 8
    ELSE IF (ge(x, 22) /\ lt(x, 24)) \/ (gt(x, 28) /\ le(x, 30)) THEN 3
    ELSE IF lt(x, 20) \/ gt(x, 31) THEN -8
    ELSE 0

comfortRain(x) == IF gt(x, 5) THEN -5 ELSE 0

comfortWind(x) ==
    IF gt(x, 25) THEN -5
    ELSE IF gt(x, 20) /\ le(x, 25) THEN -3
    ELSE 0

performanceWind(x) ==
    IF lt(x, 5) THEN 2
    ELSE IF ge(x, 5) /\ lt(x, 10) THEN 0
    ELSE IF ge(x, 10) /\ lt(x, 15) THEN -3
    ELSE IF ge(x, 15) /\ lt(x, 20) THEN -5
    ELSE IF ge(x, 20) /\ lt(x, 25) THEN -8
    ELSE IF ge(x, 25) THEN -12
    ELSE 0

performanceSea(x) ==
    IF ge(x, 22) /\ le(x, 26) THEN 5
    ELSE IF (ge(x, 20) /\ lt(x, 22)) \/ (gt(x, 26) /\ le(x, 28)) THEN 2
    ELSE IF lt(x, 18) \/ gt(x, 30) THEN -8
    ELSE IF (ge(x, 18) /\ lt(x, 20)) \/ (gt(x, 28) /\ le(x, 30)) THEN -4
    ELSE 0

performanceAir(x) ==
    IF lt(x, 25) THEN 2
    ELSE IF ge(x, 25) /\ lt(x, 50) THEN 0
    ELSE IF ge(x, 50) /\ lt(x, 100) THEN -2
    ELSE IF ge(x, 100) /\ lt(x, 150) THEN -6
    ELSE IF ge(x, 150) THEN -10
    ELSE 0

performanceTemp(x) ==
    IF ge(x, 26) /\ le(x, 30) THEN 3
    ELSE IF gt(x, 35) THEN -6
    ELSE IF lt(x, 20) THEN -4
    ELSE 0

performanceVisibility(x) ==
    IF lt(x, 2000) THEN -10
    ELSE IF ge(x, 2000) /\ lt(x, 5000) THEN -5
    ELSE 0

performanceCloud(x) == IF ge(x, 30) /\ le(x, 70) THEN 2 ELSE 0

MsgSafetyCritical ==
    "U+26A0U+FE0F Safety score is critically low ("
        \o ToString(Output.breakdown.safety) \o "/100)"
MsgSafetyConcern ==
    "U+26A0U+FE0F Safety concerns present (score: "
        \o ToString(Output.breakdown.safety) \o "/100)"
MsgComfortPoor ==
    "U+1F623 Comfort conditions are poor (score: "
        \o ToString(Output.breakdown.comfort) \o "/100)"
MsgComfortExcellent ==
    "U+1F60A Excellent comfort conditions (score: "
        \o ToString(Output.breakdown.comfort) \o "/100)"
MsgPerformance ==
    "U+1F3C3 Performance conditions are challenging (score: "
        \o ToString(Output.breakdown.performance) \o "/100)"
MsgStorm == "U+26A1 DANGER: Thunderstorm activity detected - do not enter water"
MsgStrongWind == "U+1F32CU+FE0F Strong winds reduce safety for swimmers"
MsgColdWater == "U+2744U+FE0F Water too cold (<15 U+00B0C) - risk of hypothermia"
MsgHeavyPrecip == "U+1F327U+FE0F Heavy precipitation may reduce visibility and safety"
MsgLowVisibility == "U+26A0U+FE0F Low visibility (<1 km) is unsafe for water activities"
MsgPoorAir == "U+1F637 Poor air quality (AQI U+2265 150) - consider wearing a mask"
MsgHot == "U+1F525 Very hot air temperature (> 38 U+00B0C) may be uncomfortable"
MsgChilly == "U+1F976 Chilly air temperature (< 18 U+00B0C) may be uncomfortable"
MsgUvExtreme == "U+1F9F4 Extreme UV levels (UV U+2265 11) - apply SPF 30+ sunscreen"
MsgUvHigh == "U+2600U+FE0F High UV (UV U+2265 9) - apply sunscreen and limit exposure"
MsgWindChill == "U+1F32CU+FE0F Wind chill may make you feel colder when wet"
MsgClearSky == "U+1F60E Clear skies + UV U+2265 6 - bring shade and protective gear"

MessageOrder ==
    << <<Output.breakdown.safety < 20, MsgSafetyCritical>>,
       <<Output.breakdown.safety >= 20 /\ Output.breakdown.safety < 40, MsgSafetyConcern>>,
       <<Output.breakdown.comfort < 20, MsgComfortPoor>>,
       <<Output.breakdown.comfort > 80, MsgComfortExcellent>>,
       <<Output.breakdown.performance < 20, MsgPerformance>>,
       <<Inputs.weatherCode \in StormCodes, MsgStorm>>,
       <<ge(Inputs.windSpeed, 40), MsgStrongWind>>,
       <<lt(Inputs.sst, 15), MsgColdWater>>,
       <<ge(Inputs.precipAmount, 10) \/ ge(Inputs.precipLast24h, 30), MsgHeavyPrecip>>,
       <<lt(Inputs.visibility, 1000), MsgLowVisibility>>,
       <<ge(Inputs.airQualityIndex, 150), MsgPoorAir>>,
       <<gt(Inputs.apparentTemp, 38), MsgHot>>,
       <<lt(Inputs.apparentTemp, 18), MsgChilly>>,
       <<ge(Inputs.uvIndex, 11), MsgUvExtreme>>,
       <<ge(Inputs.uvIndex, 9) /\ lt(Inputs.uvIndex, 11), MsgUvHigh>>,
       <<gt(Inputs.windSpeed, 20) /\ lt(Inputs.apparentTemp, 26), MsgWindChill>>,
       <<lt(Inputs.cloudCover, 20) /\ ge(Inputs.uvIndex, 6), MsgClearSky>> >>

\* The positions of the explanation at which message m stands.
positions(m) == {n \in 2..Len(Output.explanation) : Output.explanation[n] = m}

\* C21: after the banner the explanation holds exactly the messages whose
\* condition holds, each once, in the fixed order: safety, comfort and
\* performance commentary, then storm, strong wind, cold water, heavy
\* precipitation, low visibility, poor air quality, hot or chilly, UV, wind
\* chill, clear sky.  (The messages of MessageOrder are pairwise different,
\* so this is: the explanation after the banner is the list of the due
\* messages in that order.)
C21_ExplanationOrder ==
    Answered =>
        LET due == SelectSeq(MessageOrder, LAMBDA e : e[1])
        IN  /\ Len(Output.explanation) = 1 + Len(due)
            /\ \A n \in 1..Len(due) : Output.explanation[n + 1] = due[n][2]
            /\ \A j, k \in 1..Len(due) : j # k => due[j][2] # due[k][2]

\* Commentary of all three scores followed by at least seven messages of the
\* raw inputs, the storm and the strong-wind message among them.
C21_Witness ==
    /\ Answered
    /\ Len(Output.explanation) >= 11
    /\ positions(MsgPerformance) # {}
    /\ positions(MsgStorm) # {}
    /\ positions(MsgStrongWind) # {}

\* C22: an explanation never holds both messages of a pair: hot and chilly,
\* extreme UV and high UV, critically low and concerning safety, poor and
\* excellent comfort.
C22_PairsExclusive ==
    Answered =>
        /\ positions(MsgHot) = {} \/ positions(MsgChilly) = {}
        /\ positions(MsgUvExtreme) = {} \/ positions(MsgUvHigh) = {}
        /\ positions(MsgSafetyCritical) = {} \/ positions(MsgSafetyConcern) = {}
        /\ positions(MsgComfortPoor) = {} \/ positions(MsgComfortExcellent) = {}

\* A UV index of 11 or more, which is also 9 or more, with a safety below 20,
\* which is also below 40: the first message of each pair stands alone.
C22_Witness ==
    /\ Answered
    /\ ge(Inputs.uvIndex, 11)
    /\ Output.breakdown.safety < 20
    /\ positions(MsgUvExtreme) # {}
    /\ positions(MsgSafetyCritical) # {}
    /\ positions(MsgHot) # {}
    /\ positions(MsgComfortPoor) # {}

\* The output record of the scoring pass on the given readings.
outputOf(inputs) ==
    LET s == calcSafety(inputs)
        c == calcComfort(inputs)
        p == calcPerformance(inputs)
        t == computeTotal(s, c, p)
    IN  [totalScore |-> t,
         breakdown |-> [safety |-> s, comfort |-> c, performance |-> p],
         explanation |-> buildExplanation(s, c, p, inputs, t),
         recommendation |-> getRecommendation(t, inputs),
         bestTimeToSwim |-> getBestTimeToSwim(inputs)]

\* Wind directions other than those of the scenarios: a fractional one and NaN.
WindDirections == {N(359) + 1, NaN}

C24_BestTime ==
    Answered =>
        /\ gt(Inputs.precipAmount, 0) => Output.bestTimeToSwim = "Rainy U+2013 No best time."
        /\ ~gt(Inputs.precipAmount, 0)
              => Output.bestTimeToSwim = "Afternoon (2 PM U+2013 4 PM)"

\* No precipitation now, some in the last 24 hours and a storm code: the
\* afternoon window is returned.
C24_Witness ==
    /\ Answered
    /\ Inputs.precipAmount = N(0)
    /\ gt(Inputs.precipLast24h, 0)
    /\ Inputs.weatherCode \in StormCodes
    /\ Output.bestTimeToSwim = "Afternoon (2 PM U+2013 4 PM)"

\* C25 as stated: whenever the safety scorer returns through a short-circuit
\* (storm code, windSpeed >= 40 or windGust >= 50) the recommendation is the
\* danger string or the unsafe-wind string.
C25_RecommendationMirrorsShortCircuits ==
    Answered /\ (\/ Inputs.weatherCode \in StormCodes
                 \/ ge(Inputs.windSpeed, 40)
                 \/ ge(Inputs.windGust, 50)) =>
        Output.recommendation \in {RecDanger, RecWind}

\* C26: safety is at most 60, comfort at most 53, performance at most 39 and
\* totalScore at most 54; the positive banner, the go-ahead recommendation
\* and the excellent-comfort message are never produced.
C26_UpperBounds ==
    Answered =>
        /\ Output.breakdown.safety <= 60
        /\ Output.breakdown.comfort <= 53
        /\ Output.breakdown.performance <= 39
        /\ Output.totalScore <= 54
        /\ Output.explanation[1] # BannerPositive
        /\ Output.recommendation # RecGoAhead
        /\ positions(MsgComfortExcellent) = {}

\* All three sub-scores at their maximum at once: totalScore is 54.
C26_Witness ==
    /\ Answered
    /\ Output.breakdown.safety = 60
    /\ Output.breakdown.comfort = 53
    /\ Output.breakdown.performance = 39
    /\ Output.totalScore = 54

\* C27 as stated: over the whole wind range, with the other eleven inputs
\* fixed, raising windSpeed never raises the safety sub-score.
C27_WindMonotoneEverywhere ==
    Answered /\ Inputs.windSpeed # NaN =>
        \A w2 \in Inputs.windSpeed..N(60) :
            calcSafety([Inputs EXCEPT !.windSpeed = w2]) <= Output.breakdown.safety

\* C28 as stated: of two inputs with equal comfort and equal performance
\* sub-scores, the one with the lower safety sub-score never has the higher
\* totalScore.  The second input is the first with another wind speed or
\* with the storm code.
C28_TotalMonotoneInSafety ==
    Answered =>
        \A w2 \in {Inputs.windSpeed, N(40), N(45), N(50)},
           code \in {Inputs.weatherCode, "95"} :
            LET other == outputOf([Inputs EXCEPT !.windSpeed = w2, !.weatherCode = code])
            IN  /\ other.breakdown.comfort = Output.breakdown.comfort
                /\ other.breakdown.performance = Output.breakdown.performance
                /\ other.breakdown.safety <= Output.breakdown.safety
                => other.totalScore <= Output.totalScore

\* C29: the recommendation is the danger string exactly when the explanation
\* holds the thunderstorm message, and then safety is 5 and the explanation
\* holds the critically-low message with (5/100) before the thunderstorm
\* message.
C29_StormConsistent ==
    Answered =>
        /\ Output.recommendation = RecDanger <=> positions(MsgStorm) # {}
        /\ Output.recommendation = RecDanger \/ positions(MsgStorm) # {} =>
              /\ Output.breakdown.safety = 5
              /\ \E n \in 2..Len(Output.explanation) :
                    /\ Output.explanation[n]
                          = "U+26A0U+FE0F Safety score is critically low (5/100)"
                    /\ \A m \in positions(MsgStorm) : n < m

\* A weatherCode that holds the word thunderstorm inside a longer text has
\* been answered with the danger string and the thunderstorm message.
C29_Witness ==
    /\ Answered
    /\ Inputs.weatherCode = "slight thunderstorm with hail"
    /\ Output.recommendation = RecDanger
    /\ positions(MsgStorm) # {}

\* C30: with a safety of 10 or less totalScore is below 50, the banner is
\* the negative one, the critically-low safety message is present and the
\* recommendation is the danger, unsafe-wind, unsafe-cold or not-recommended
\* string; in general go-ahead comes with the positive banner only and
\* caution with the cautious banner only.
C30_UniformlyNegative ==
    Answered =>
        /\ Output.breakdown.safety <= 10 =>
              /\ Output.totalScore < 50
              /\ Output.explanation[1] = BannerNegative
              /\ positions(MsgSafetyCritical) # {}
              /\ Output.recommendation \in {RecDanger, RecWind, RecCold, RecNotRecommended}
        /\ Output.recommendation = RecGoAhead => Output.explanation[1] = BannerPositive
        /\ Output.recommendation = RecCaution => Output.explanation[1] = BannerCautious

\* A gust of 60 km/h with a calm mean wind and warm water: safety 8, and the
\* recommendation is left to the total.
C30_Witness ==
    /\ Answered
    /\ Output.breakdown.safety = 8
    /\ ~ge(Inputs.windSpeed, 40)
    /\ ~lt(Inputs.sst, 15)
    /\ Output.recommendation = RecNotRecommended

====
